---- MODULE Spec2Model ----
(***************************************************************************)
(* Model of src/src/main.ts: class App, a three.js viewer with one mesh,   *)
(* two shader materials, a per-frame update (animate) and three input      *)
(* handlers (onWindowResize, onDocumentClick, onKeyPress).                 *)
(*                                                                         *)
(* Number representation.  The code works on JavaScript doubles.           *)
(*   - Times (elapsedTime, clickTime, u_time, u_clickTime) are held in     *)
(*     milliseconds: the code computes (Date.now() - startTime) / 1000     *)
(*     from an integer number of milliseconds, so the value in the model   *)
(*     is 1000 times the value in the program and the sentinel -1 is       *)
(*     -1000.                                                              *)
(*   - elasticity and u_elasticity are held in units of 10^-9: 1.0 is      *)
(*     ElasticityScale, 0.001 is ElasticityScale / 1000.  The product      *)
(*     0.02 * elasticity is rounded to that grid.  The grid is far         *)
(*     coarser than the rounding of doubles; the chain of values after a   *)
(*     click crosses the 0.001 threshold with a margin (0.0010188 at tick  *)
(*     341, 0.0009984 at tick 342) larger than the accumulated error, so   *)
(*     the tick at which elasticity becomes 0 is the program's (343).      *)
(*   - camera.aspect = width / height is held as the reduced fraction      *)
(*     <<n, d>>; equal fractions are equal doubles.                        *)
(*                                                                         *)
(* The clock.  Date.now() is the wall clock: the handlers take whatever it *)
(* reads, also a reading below an earlier one.  Spec, FairSpec, DecaySpec  *)
(* and PairSpec draw every reading from Times; MonoSpec is Spec under the  *)
(* assumption that the readings never decrease.                            *)
(***************************************************************************)
EXTENDS Integers, Sequences, FiniteSets

VARIABLES
    activeMaterialIndex,  \* App.activeMaterialIndex
    clickTime,            \* App.clickTime (ms)
    clickPosition,        \* App.clickPosition
    elasticity,           \* App.elasticity (10^-9)
    materials,            \* App.materials: index -> [name, uniforms]
    meshMaterial,         \* index of the material object bound to mesh.material
    camera,               \* App.camera: [fov, aspect, near, far, position]
    rendererSize,         \* size last given to renderer.setSize
    ticksSinceHit,        \* frames animated since the last click hit, -1 before any
    twin                  \* PairSpec: the fields of a second run of App given the
                          \* same frames, clicks, resizes and camera moves and its
                          \* own key presses; Alone in the other specifications

vars == <<activeMaterialIndex, clickTime, clickPosition, elasticity, materials,
          meshMaterial, camera, rendererSize, ticksSinceHit, twin>>

----------------------------------------------------------------------------
(* Bounds of the model *)

\* clock readings reach MaxSeconds whole seconds
MaxSeconds == 2

\* the frame counter ticksSinceHit saturates here
MaxTicks == 345

\* DecaySpec draws elasticity within MaxSpread grid steps of the threshold
MaxSpread == 60

(* Units *)
TimeScale == 1000
ElasticityScale == 1000000000

\* 1.0, the impulse of a click hit
FullImpulse == ElasticityScale

\* 0.001, the snap-to-zero threshold of animate
Threshold == ElasticityScale \div 1000

\* -1, the "no click" value of clickTime and u_clickTime
NoClick == -1 * TimeScale

\* elapsed times the clock can read: 0, 0.5 s and the whole seconds 2..MaxSeconds
Times == {0, TimeScale \div 2} \cup {TimeScale * s : s \in 2..MaxSeconds}

\* intersection points a raycast can return
Points == {<<1, 2, 3>>}

\* window sizes <<innerWidth, innerHeight>>
InitialSize == <<800, 600>>
Sizes == {InitialSize, <<600, 800>>}

\* positions OrbitControls can move the camera to
InitialCameraPosition == <<0, 0, 9>>
CameraPositions == {InitialCameraPosition, <<3, 4, 5>>}

\* keys of a keydown event
Keys == {"m", "M", "n", "Enter"}

----------------------------------------------------------------------------
(* Pure helpers *)

RECURSIVE GCD(_, _)
GCD(a, b) == IF b = 0 THEN a ELSE GCD(b, a % b)

\* width / height
Aspect(width, height) ==
    <<width \div GCD(width, height), height \div GCD(width, height)>>

\* a damping factor of 0.2 instead of 0.02
DampingTenfold(e) == (2 * e + 5) \div 10

\* 0.02 * e, rounded to the grid
DampingOf(e) == (2 * e + 50) \div 100

\* a damping whose test is >= 0.001: 0.001 itself is damped, not snapped
DecayThresholdInclusive(e) == IF e >= Threshold THEN e - DampingOf(e) ELSE 0

\* a damping that clamps to the threshold instead of snapping to zero
DecayClampsToThreshold(e) == IF e > Threshold THEN e - DampingOf(e) ELSE Threshold

\* a damping without the snap to zero: at or under the threshold it stalls
DecayStalls(e) == IF e > Threshold THEN e - DampingOf(e) ELSE e

\* animate, lines 130-134: the damping of elasticity
Decay(e) == IF e > Threshold THEN e - DampingOf(e) ELSE 0

\* an increment without the wrap-around
NextIndexNoWrap(i) == i + 1

\* onKeyPress, line 171
NextIndex(i) == (i + 1) % 2

\* a test that forgets the upper-case key
IsToggleKeyLowerOnly(key) == key = "m"

\* onKeyPress, line 170
IsToggleKey(key) == key = "m" \/ key = "M"

\* the uniforms of the wave material as constructed (lines 58-71)
WaveUniforms(resolution, cameraPosition) ==
    [u_time |-> 0,
     u_resolution |-> resolution,
     u_elasticity |-> 0,
     u_clickTime |-> NoClick,
     u_clickPosition |-> <<-1, -1, -1>>,
     u_shininess |-> 32,
     u_transparency |-> "0.6",
     u_jiggleIntensity |-> "0.05",
     u_lightDirection |-> [normalize |-> <<1, 1, 1>>],
     u_lightColor |-> "0xffffff",
     u_objectColor |-> "0xff00ff",
     cameraPosition |-> cameraPosition]

\* the uniforms of the creative material as constructed (lines 81-89)
CreativeUniforms(resolution, cameraPosition) ==
    [u_time |-> 0,
     u_resolution |-> resolution,
     u_inflateAmount |-> "0.2",
     u_lightDirection |-> [normalize |-> <<1, 1, 1>>],
     u_lightColor |-> "0xffffff",
     u_objectColor |-> "0xff00ff",
     cameraPosition |-> cameraPosition]

\* this.materials as the constructor builds it (lines 54-95)
ConstructedMaterials ==
    [i \in 0..1 |->
        IF i = 0
        THEN [name |-> "wave",
              uniforms |-> WaveUniforms(InitialSize, InitialCameraPosition)]
        ELSE [name |-> "creative",
              uniforms |-> CreativeUniforms(InitialSize, InitialCameraPosition)]]

----------------------------------------------------------------------------
(* The parts of the handlers *)

\* materials.forEach of animate (lines 124-127), then line 135
FrameUniforms(ms, cameraPosition, elapsedTime, e) ==
    [i \in DOMAIN ms |->
        IF i = 0
        THEN [ms[i] EXCEPT !.uniforms.u_time = elapsedTime,
                           !.uniforms.cameraPosition = cameraPosition,
                           !.uniforms.u_elasticity = e]
        ELSE [ms[i] EXCEPT !.uniforms.u_time = elapsedTime,
                           !.uniforms.cameraPosition = cameraPosition]]

\* renderer.setSize(width, height), line 143
ResizedRenderer(size, width, height) == <<width, height>>

\* an aspect of height / width
ResizedCameraSwapped(cam, width, height) ==
    [cam EXCEPT !.aspect = Aspect(height, width)]

\* camera.aspect = width / height, line 144
ResizedCamera(cam, width, height) == [cam EXCEPT !.aspect = Aspect(width, height)]

\* a hit whose click time is left in milliseconds (the / 1000 of line 149 forgotten)
HitUniformsMilliseconds(ms, t, point) ==
    [ms EXCEPT ![0].uniforms.u_clickPosition = point,
               ![0].uniforms.u_clickTime = t * TimeScale]

\* a hit that also writes the impulse into the uniform
HitUniformsWritesImpulse(ms, t, point) ==
    [ms EXCEPT ![0].uniforms.u_clickPosition = point,
               ![0].uniforms.u_clickTime = t,
               ![0].uniforms.u_elasticity = FullImpulse]

\* the uniforms after the hit branch of onDocumentClick (lines 160-162)
HitUniforms(ms, t, point) ==
    [ms EXCEPT ![0].uniforms.u_clickPosition = point,
               ![0].uniforms.u_clickTime = t]

\* a miss that also puts the click position back to its default
MissUniformsResetsPosition(ms) ==
    [ms EXCEPT ![0].uniforms.u_clickTime = NoClick,
               ![0].uniforms.u_clickPosition = <<-1, -1, -1>>]

\* the uniforms after the miss branch of onDocumentClick (line 165)
MissUniforms(ms) ==
    [ms EXCEPT ![0].uniforms.u_clickTime = NoClick]

\* a hit that adds the impulse to the elasticity left instead of restarting it
HitElasticityAdds(e) == e + FullImpulse

\* elasticity after the hit branch of onDocumentClick (line 163)
HitElasticity(e) == FullImpulse

\* OrbitControls (line 101) writes camera.position
OrbitedCamera(cam, position) == [cam EXCEPT !.position = position]

\* both cameraPosition uniforms hold the camera's own position object (lines 70,
\* 88, 126), so they show a move of the camera at once
OrbitedUniforms(ms, position) ==
    [i \in DOMAIN ms |-> [ms[i] EXCEPT !.uniforms.cameraPosition = position]]

----------------------------------------------------------------------------
(* The state the constructor returns with.  Its last statement (line 115) is
   the first call of animate, which reads the clock a second time (line 121):
   elapsedTime is that reading. *)

AppStart(elapsedTime) ==
    [activeMaterialIndex |-> 0,
     camera |-> [fov |-> 75, aspect |-> Aspect(InitialSize[1], InitialSize[2]),
                 near |-> "0.1", far |-> 1000, position |-> InitialCameraPosition],
     rendererSize |-> InitialSize,
     meshMaterial |-> 0,
     clickTime |-> NoClick,
     clickPosition |-> <<-1, -1, 0>>,
     elasticity |-> Decay(0),
     materials |-> FrameUniforms(ConstructedMaterials, InitialCameraPosition,
                                 elapsedTime, Decay(0))]

\* the value of twin where a single run is modelled
Alone == [paired |-> FALSE]

\* the variables hold the fields of app, with elasticity e
StartsAs(app, e) ==
    /\ activeMaterialIndex = app.activeMaterialIndex
    /\ camera = app.camera
    /\ rendererSize = app.rendererSize
    /\ materials = app.materials
    /\ meshMaterial = app.meshMaterial
    /\ clickTime = app.clickTime
    /\ clickPosition = app.clickPosition
    /\ elasticity = e
    /\ ticksSinceHit = -1

Init ==
    \E t \in Times :
        StartsAs(AppStart(t), AppStart(t).elasticity) /\ twin = Alone

----------------------------------------------------------------------------
(* Handlers *)

\* a frame that writes the time of the displayed material only
animateActiveOnly(elapsedTime) ==
    /\ elasticity' = Decay(elasticity)
    /\ materials' =
          LET frame == FrameUniforms(materials, camera.position, elapsedTime,
                                     Decay(elasticity))
          IN  [i \in DOMAIN frame |->
                  IF i = activeMaterialIndex THEN frame[i]
                  ELSE [frame[i] EXCEPT
                           !.uniforms.u_time = materials[i].uniforms.u_time]]
    /\ ticksSinceHit' = IF ticksSinceHit = -1 THEN -1
                        ELSE IF ticksSinceHit < MaxTicks THEN ticksSinceHit + 1
                        ELSE MaxTicks
    /\ UNCHANGED <<activeMaterialIndex, clickTime, clickPosition, meshMaterial,
                   camera, rendererSize>>

\* a frame that writes u_elasticity only while the wave material is displayed
animateElasticityIfActive(elapsedTime) ==
    /\ elasticity' = Decay(elasticity)
    /\ materials' =
          LET frame == FrameUniforms(materials, camera.position, elapsedTime,
                                     Decay(elasticity))
          IN  IF activeMaterialIndex = 0 THEN frame
              ELSE [frame EXCEPT ![0].uniforms.u_elasticity =
                                     materials[0].uniforms.u_elasticity]
    /\ ticksSinceHit' = IF ticksSinceHit = -1 THEN -1
                        ELSE IF ticksSinceHit < MaxTicks THEN ticksSinceHit + 1
                        ELSE MaxTicks
    /\ UNCHANGED <<activeMaterialIndex, clickTime, clickPosition, meshMaterial,
                   camera, rendererSize>>

\* App.animate when the clock reads elapsedTime
animate(elapsedTime) ==
    /\ elasticity' = Decay(elasticity)
    /\ materials' = FrameUniforms(materials, camera.position, elapsedTime,
                                  Decay(elasticity))
    /\ ticksSinceHit' = IF ticksSinceHit = -1 THEN -1
                        ELSE IF ticksSinceHit < MaxTicks THEN ticksSinceHit + 1
                        ELSE MaxTicks
    /\ UNCHANGED <<activeMaterialIndex, clickTime, clickPosition, meshMaterial,
                   camera, rendererSize>>

\* App.onWindowResize with the window at width x height
onWindowResize(width, height) ==
    /\ rendererSize' = ResizedRenderer(rendererSize, width, height)
    /\ camera' = ResizedCamera(camera, width, height)
    /\ UNCHANGED <<activeMaterialIndex, clickTime, clickPosition, elasticity,
                   materials, meshMaterial, ticksSinceHit>>

\* App.onDocumentClick when the clock reads t and the ray hits the mesh at point
onDocumentClickHit(t, point) ==
    /\ clickTime' = t
    /\ materials' = HitUniforms(materials, t, point)
    /\ elasticity' = HitElasticity(elasticity)
    /\ ticksSinceHit' = 0
    /\ UNCHANGED <<activeMaterialIndex, clickPosition, meshMaterial, camera,
                   rendererSize>>

\* App.onDocumentClick when the clock reads t and the ray hits nothing
onDocumentClickMiss(t) ==
    /\ clickTime' = t
    /\ materials' = MissUniforms(materials)
    /\ UNCHANGED <<activeMaterialIndex, clickPosition, elasticity, meshMaterial,
                   camera, rendererSize, ticksSinceHit>>

\* a key press that also cancels the ripple when it switches the material
onKeyPressCancelsRipple(key) ==
    /\ IF IsToggleKey(key)
       THEN /\ activeMaterialIndex' = NextIndex(activeMaterialIndex)
            /\ meshMaterial' = NextIndex(activeMaterialIndex)
            /\ elasticity' = 0
       ELSE UNCHANGED <<activeMaterialIndex, meshMaterial, elasticity>>
    /\ UNCHANGED <<clickTime, clickPosition, materials, camera,
                   rendererSize, ticksSinceHit>>

\* App.onKeyPress
onKeyPress(key) ==
    /\ IF IsToggleKey(key)
       THEN /\ activeMaterialIndex' = NextIndex(activeMaterialIndex)
            /\ meshMaterial' = NextIndex(activeMaterialIndex)
       ELSE UNCHANGED <<activeMaterialIndex, meshMaterial>>
    /\ UNCHANGED <<clickTime, clickPosition, elasticity, materials, camera,
                   rendererSize, ticksSinceHit>>

\* a pointer drag or wheel on the canvas: OrbitControls moves the camera
orbit(position) ==
    /\ camera' = OrbitedCamera(camera, position)
    /\ materials' = OrbitedUniforms(materials, position)
    /\ UNCHANGED <<activeMaterialIndex, clickTime, clickPosition, elasticity,
                   meshMaterial, rendererSize, ticksSinceHit>>

Tick == \E t \in Times : animate(t) /\ UNCHANGED twin
Resize == \E s \in Sizes : onWindowResize(s[1], s[2]) /\ UNCHANGED twin
ClickHit == \E t \in Times, p \in Points : onDocumentClickHit(t, p) /\ UNCHANGED twin
ClickMiss == \E t \in Times : onDocumentClickMiss(t) /\ UNCHANGED twin
KeyPress == \E k \in Keys : onKeyPress(k) /\ UNCHANGED twin
Orbit == \E c \in CameraPositions : orbit(c) /\ UNCHANGED twin

Next == Tick \/ Resize \/ ClickHit \/ ClickMiss \/ KeyPress \/ Orbit

Spec == Init /\ [][Next]_vars

\* requestAnimationFrame (line 119) schedules the next animate on every frame
FairSpec == Init /\ [][Next]_vars /\ WF_vars(Tick)

----------------------------------------------------------------------------
(* The handlers under a clock that never goes back.  Every reading is kept in
   u_time (a frame) or in clickTime (a click), so the last reading of such a
   clock is the larger of the two. *)

LastReading ==
    IF clickTime > materials[0].uniforms.u_time
    THEN clickTime ELSE materials[0].uniforms.u_time

MonoTick == \E t \in Times : t >= LastReading /\ animate(t) /\ UNCHANGED twin
MonoClickHit ==
    \E t \in Times, p \in Points :
        t >= LastReading /\ onDocumentClickHit(t, p) /\ UNCHANGED twin
MonoClickMiss ==
    \E t \in Times : t >= LastReading /\ onDocumentClickMiss(t) /\ UNCHANGED twin

MonoNext == MonoTick \/ Resize \/ MonoClickHit \/ MonoClickMiss \/ KeyPress \/ Orbit

MonoSpec == Init /\ [][MonoNext]_vars

----------------------------------------------------------------------------
(* The damping of animate on chosen values of elasticity *)

\* elasticity values given to animate in DecaySpec: 0, 1.0, and the values around
\* the threshold 0.001, the threshold itself among them
DecayInputs ==
    {0, FullImpulse} \cup ((Threshold - MaxSpread)..(Threshold + MaxSpread))

\* the state the constructor returns with, elasticity replaced by a value of
\* DecayInputs
DecayInit ==
    \E t \in Times, e \in DecayInputs : StartsAs(AppStart(t), e) /\ twin = Alone

\* the damping of animate applied to every elasticity of DecayInputs
DecaySpec == DecayInit /\ [][Tick]_vars

----------------------------------------------------------------------------
(* Two runs of App side by side: the same frames, clicks, resizes and camera
   moves reach both, each gets its own key presses.  The second run's fields
   are the record twin; its handlers are the handlers above, applied to that
   record. *)

\* App.animate on the second run
TwinAnimate(s, elapsedTime) ==
    [s EXCEPT !.elasticity = Decay(s.elasticity),
              !.materials = FrameUniforms(s.materials, s.camera.position,
                                          elapsedTime, Decay(s.elasticity))]

\* App.onWindowResize on the second run
TwinResize(s, width, height) ==
    [s EXCEPT !.rendererSize = ResizedRenderer(s.rendererSize, width, height),
              !.camera = ResizedCamera(s.camera, width, height)]

\* App.onDocumentClick, hit branch, on the second run
TwinClickHit(s, t, point) ==
    [s EXCEPT !.clickTime = t,
              !.materials = HitUniforms(s.materials, t, point),
              !.elasticity = HitElasticity(s.elasticity)]

\* App.onDocumentClick, miss branch, on the second run
TwinClickMiss(s, t) ==
    [s EXCEPT !.clickTime = t,
              !.materials = MissUniforms(s.materials)]

\* App.onKeyPress on the second run
TwinKeyPress(s, key) ==
    IF IsToggleKey(key)
    THEN [s EXCEPT !.activeMaterialIndex = NextIndex(s.activeMaterialIndex),
                   !.meshMaterial = NextIndex(s.activeMaterialIndex)]
    ELSE s

\* OrbitControls on the second run
TwinOrbit(s, position) ==
    [s EXCEPT !.camera = OrbitedCamera(s.camera, position),
              !.materials = OrbitedUniforms(s.materials, position)]

PairTick == \E t \in Times : animate(t) /\ twin' = TwinAnimate(twin, t)
PairResize ==
    \E s \in Sizes :
        onWindowResize(s[1], s[2]) /\ twin' = TwinResize(twin, s[1], s[2])
PairClickHit ==
    \E t \in Times, p \in Points :
        onDocumentClickHit(t, p) /\ twin' = TwinClickHit(twin, t, p)
PairClickMiss ==
    \E t \in Times : onDocumentClickMiss(t) /\ twin' = TwinClickMiss(twin, t)
PairOrbit ==
    \E c \in CameraPositions : orbit(c) /\ twin' = TwinOrbit(twin, c)
TwinKey ==
    \E k \in Keys :
        /\ twin' = TwinKeyPress(twin, k)
        /\ UNCHANGED <<activeMaterialIndex, clickTime, clickPosition, elasticity,
                       materials, meshMaterial, camera, rendererSize,
                       ticksSinceHit>>

PairNext ==
    \/ PairTick \/ PairResize \/ PairClickHit \/ PairClickMiss \/ PairOrbit
    \/ KeyPress \/ TwinKey

\* both constructors return at the same reading of the clock
PairInit ==
    \E t \in Times :
        StartsAs(AppStart(t), AppStart(t).elasticity) /\ twin = AppStart(t)

PairSpec == PairInit /\ [][PairNext]_vars

----------------------------------------------------------------------------
(* Properties *)

wave == materials[0].uniforms
creative == materials[1].uniforms

\* C1: a click that hits, from any state (also one whose elasticity is still
\* decaying), leaves elasticity at exactly 1.0, the wave u_clickTime at the
\* elapsed time of the click and the wave u_clickPosition at the intersection
\* point.
C1_HitRestartsImpulse ==
    [][\A t \in Times, p \in Points :
          onDocumentClickHit(t, p) =>
             /\ elasticity' = ElasticityScale
             /\ clickTime' = t
             /\ materials'[0].uniforms.u_clickTime = t
             /\ materials'[0].uniforms.u_clickPosition = p]_vars

\* a hit at 2.0 s on (1,2,3) that arrived while the previous ripple was still
\* decaying: the uniform still shows the elasticity of the frame before
C1_Witness ==
    /\ ticksSinceHit = 0
    /\ elasticity = ElasticityScale
    /\ wave.u_elasticity > 0
    /\ wave.u_elasticity < ElasticityScale
    /\ wave.u_clickTime = 2 * TimeScale
    /\ wave.u_clickPosition = <<1, 2, 3>>

\* C2: a click that misses, from any state, leaves the wave u_clickTime at -1
\* and changes neither elasticity nor the wave u_clickPosition.
C2_MissResetsOnlyClickTime ==
    [][\A t \in Times :
          onDocumentClickMiss(t) =>
             /\ materials'[0].uniforms.u_clickTime = -1 * TimeScale
             /\ elasticity' = elasticity
             /\ materials'[0].uniforms.u_clickPosition = wave.u_clickPosition]_vars

\* a miss (clickTime holds a reading later than the last frame's and
\* u_clickTime is -1) while the ripple of an earlier hit is in flight
C2_Witness ==
    /\ wave.u_clickTime = NoClick
    /\ clickTime > wave.u_time
    /\ wave.u_clickPosition = <<1, 2, 3>>
    /\ elasticity > 0
    /\ elasticity < ElasticityScale
    /\ ticksSinceHit > 0

\* C3: every frame, key press, resize, click miss and camera move leaves
\* elasticity equal or smaller; and if from some point on no click hits, elasticity eventually
\* is 0 and stays 0 (frames keep coming: FairSpec).
C3_DecaysToZero ==
    /\ [][(Tick \/ KeyPress \/ Resize \/ ClickMiss \/ Orbit) =>
          elasticity' <= elasticity]_vars
    /\ (<>[][~ClickHit]_vars) => <>[](elasticity = 0)

\* a hit whose ripple has decayed to exactly 0
C3_Witness ==
    /\ ticksSinceHit > 0
    /\ elasticity = 0
    /\ wave.u_elasticity = 0

\* C4 as stated: after a click hit elasticity is 1.0, and after 50 frames
\* following the hit (no other hit) elasticity is exactly 0.
C4_ZeroAfter50Ticks ==
    /\ ticksSinceHit = 0 => elasticity = ElasticityScale
    /\ ticksSinceHit = 50 => elasticity = 0

\* C4 (amended): after a click hit elasticity is 1.0; after 50 frames following
\* the hit it is still about 0.364 (0.98^50); it stays positive through frame
\* 342 and is exactly 0 from frame 343 on.
C4_ZeroAfter343Ticks ==
    /\ ticksSinceHit = 0 => elasticity = ElasticityScale
    /\ ticksSinceHit = 50 => (elasticity > 364000000 /\ elasticity < 365000000)
    /\ ticksSinceHit \in 0..342 => elasticity > 0
    /\ ticksSinceHit >= 343 => elasticity = 0

\* the scenario's hit, on (1,2,3) at 2.0 s, followed by 343 frames
C4_Witness ==
    /\ wave.u_clickPosition = <<1, 2, 3>>
    /\ wave.u_clickTime = 2 * TimeScale
    /\ clickTime = 2 * TimeScale
    /\ ticksSinceHit = 343
    /\ elasticity = 0

\* C5: a frame at elapsed time t, whichever material is displayed, leaves the
\* u_time of the wave material and of the creative material both equal to t.
C5_TimeOnBothMaterials ==
    [][\A t \in Times :
          animate(t) =>
             /\ materials'[0].uniforms.u_time = t
             /\ materials'[1].uniforms.u_time = t]_vars

\* start, a click miss at 2.0 s, then a frame at 0.5 s, with the creative
\* material displayed
C5_Witness ==
    /\ wave.u_time = TimeScale \div 2
    /\ creative.u_time = TimeScale \div 2
    /\ clickTime = 2 * TimeScale
    /\ activeMaterialIndex = 1
    /\ elasticity = 0

\* C6: a key press of m or M moves the active index to (index + 1) mod 2 and
\* binds that material to the mesh, so two of them give the index back; any
\* other key changes neither the index nor the mesh's material.
C6_KeyToggles ==
    /\ \A k \in {"m", "M"} :
          ENABLED (/\ onKeyPress(k)
                   /\ activeMaterialIndex' = (activeMaterialIndex + 1) % 2
                   /\ activeMaterialIndex' = 1 - activeMaterialIndex
                   /\ meshMaterial' = activeMaterialIndex'
                   /\ materials'[meshMaterial'].name =
                         IF activeMaterialIndex = 0 THEN "creative" ELSE "wave")
    /\ \A k \in Keys \ {"m", "M"} :
          ~ ENABLED (/\ onKeyPress(k)
                     /\ \/ activeMaterialIndex' # activeMaterialIndex
                        \/ meshMaterial' # meshMaterial)

\* the creative material is displayed: m has been pressed an odd number of times
C6_Witness ==
    /\ activeMaterialIndex = 1
    /\ meshMaterial = 1
    /\ materials[meshMaterial].name = "creative"

\* C7: elasticity is always within [0, 1].
C7_ElasticityInRange ==
    /\ elasticity >= 0
    /\ elasticity <= ElasticityScale

\* a second hit arrives while the ripple of the first is decaying, after a key
\* press, a resize and a camera move
C7_Witness ==
    /\ elasticity = ElasticityScale
    /\ wave.u_elasticity > 0
    /\ wave.u_clickPosition = <<1, 2, 3>>
    /\ activeMaterialIndex = 1
    /\ rendererSize # InitialSize
    /\ camera.position # InitialCameraPosition

\* C8: the active index is always 0 or 1, an index of the two-element material
\* list, and the mesh is bound to the material at that index.
C8_IndexValid ==
    /\ DOMAIN materials = {0, 1}
    /\ activeMaterialIndex \in DOMAIN materials
    /\ meshMaterial = activeMaterialIndex
    /\ materials[meshMaterial].name =
          IF activeMaterialIndex = 0 THEN "wave" ELSE "creative"

\* the creative material is displayed while a ripple is in flight
C8_Witness ==
    /\ activeMaterialIndex = 1
    /\ materials[meshMaterial].name = "creative"
    /\ ticksSinceHit > 0
    /\ elasticity > 0

\* C9: at startup elasticity is 0, clickTime is -1 and the active index is 0;
\* and as long as no click has hit, elasticity and the wave u_elasticity are 0.
C9_ZeroUntilFirstHit ==
    /\ elasticity = 0
    /\ clickTime = -1 * TimeScale
    /\ activeMaterialIndex = 0
    /\ [](ticksSinceHit = -1 => (elasticity = 0 /\ wave.u_elasticity = 0))

\* no hit yet, after frames up to 2.0 s, a miss, a key press and a resize
C9_Witness ==
    /\ ticksSinceHit = -1
    /\ wave.u_time = 2 * TimeScale
    /\ clickTime > 0
    /\ wave.u_clickTime = NoClick
    /\ activeMaterialIndex = 1
    /\ rendererSize # InitialSize
    /\ elasticity = 0

\* C10: a resize to width x height leaves camera.aspect = width / height and
\* the renderer at width x height; resizing again to the same size changes
\* nothing more; and elasticity, clickTime, clickPosition, the active index,
\* the mesh's material and every uniform (u_resolution too) are unchanged.
C10_ResizeIdempotentFrame ==
    [][\A s \in Sizes :
          onWindowResize(s[1], s[2]) =>
             /\ camera'.aspect[1] * s[2] = camera'.aspect[2] * s[1]
             /\ rendererSize' = s
             /\ ResizedCamera(camera', s[1], s[2]) = camera'
             /\ ResizedRenderer(rendererSize', s[1], s[2]) = rendererSize'
             /\ camera' = [camera EXCEPT !.aspect = camera'.aspect]
             /\ materials' = materials
             /\ materials'[0].uniforms.u_resolution = InitialSize
             /\ materials'[1].uniforms.u_resolution = InitialSize
             /\ UNCHANGED <<elasticity, clickTime, clickPosition,
                            activeMaterialIndex, meshMaterial>>]_vars

\* the window has been resized to 600 x 800 while a ripple is in flight; the
\* resolution uniform still holds the size at startup
C10_Witness ==
    /\ rendererSize = <<600, 800>>
    /\ camera.aspect = <<3, 4>>
    /\ wave.u_resolution = InitialSize
    /\ elasticity > 0
    /\ elasticity < ElasticityScale

\* C11: one frame takes elasticity e > 0.001 to e - 0.02 * e (to the grid: the
\* amount taken off, times 50, is e) and any e <= 0.001, 0.001 itself among
\* them, to exactly 0; so after a frame elasticity is 0 or above 0.00098.
C11_DecayStep ==
    [][\A t \in Times :
          animate(t) =>
             /\ elasticity > 1000000 =>
                   /\ 50 * (elasticity - elasticity') - elasticity \in -25..25
                   /\ elasticity' < elasticity
             /\ elasticity <= 1000000 => elasticity' = 0
             /\ elasticity' = 0 \/ elasticity' > 980000]_vars

\* elasticity is exactly 0.001 and the frame that comes takes it to 0
C11_Witness ==
    /\ elasticity = 1000000
    /\ ENABLED (/\ animate(TimeScale \div 2)
                /\ elasticity' = 0
                /\ materials'[0].uniforms.u_elasticity = 0)

\* C12: after every frame the wave u_elasticity equals the (damped) elasticity
\* of the state; the creative material has no u_elasticity, gains no uniform,
\* and the frame changes none of its uniforms but u_time and cameraPosition,
\* whichever material is displayed.
C12_ElasticityToWaveOnly ==
    [][\A t \in Times :
          animate(t) =>
             /\ materials'[0].uniforms.u_elasticity = elasticity'
             /\ "u_elasticity" \notin DOMAIN materials'[1].uniforms
             /\ DOMAIN materials'[1].uniforms = DOMAIN creative
             /\ \A f \in DOMAIN creative \ {"u_time", "cameraPosition"} :
                   materials'[1].uniforms[f] = creative[f]]_vars

\* frames have damped a ripple while the creative material is displayed
C12_Witness ==
    /\ activeMaterialIndex = 1
    /\ ticksSinceHit > 1
    /\ elasticity > 0
    /\ wave.u_elasticity = elasticity
    /\ wave.u_time = 2 * TimeScale
    /\ creative.u_time = wave.u_time
    /\ creative.u_inflateAmount = "0.2"

\* C13: with a clock that never goes back, after every frame the wave
\* u_clickTime is -1 or lies in [0, wave u_time]; u_clickTime is above the
\* (stale) u_time only between a click hit and the next frame.
C13_ClickTimeNotAfterTime ==
    /\ [][\A t \in Times :
             animate(t) =>
                \/ materials'[0].uniforms.u_clickTime = -1 * TimeScale
                \/ /\ materials'[0].uniforms.u_clickTime >= 0
                   /\ materials'[0].uniforms.u_clickTime
                         <= materials'[0].uniforms.u_time]_vars
    /\ [](wave.u_clickTime > wave.u_time => ticksSinceHit = 0)

\* a hit at 0.5 s shown by a frame at 2.0 s
C13_Witness ==
    /\ wave.u_clickTime = TimeScale \div 2
    /\ wave.u_time = 2 * TimeScale
    /\ ticksSinceHit > 0
    /\ elasticity > 0

\* C14: the wave u_elasticity is never above 0.98, so never the full impulse;
\* a click hit leaves the uniform at its value of before the click, so until
\* the next frame the state's elasticity is 1.0 and the uniform differs.
C14_UniformNeverFullImpulse ==
    /\ [](wave.u_elasticity <= 980000000)
    /\ [](ticksSinceHit = 0 =>
            (elasticity = ElasticityScale /\ wave.u_elasticity # elasticity))
    /\ [][\A t \in Times, p \in Points :
             onDocumentClickHit(t, p) =>
                materials'[0].uniforms.u_elasticity = wave.u_elasticity]_vars

\* a hit one frame after an earlier hit: the uniform holds 0.98, the state 1.0
C14_Witness ==
    /\ ticksSinceHit = 0
    /\ elasticity = ElasticityScale
    /\ wave.u_elasticity = 980000000

\* C15: in two runs given the same frames and clicks (and resizes and camera
\* moves) and different key presses, elasticity, clickTime and every wave
\* uniform are equal at every point; a
\* hit while the creative material is displayed still sets elasticity to 1.0
\* and frames still damp it; frames and clicks never change the active index.
C15_RippleIndependentOfMaterial ==
    /\ [](/\ twin.elasticity = elasticity
          /\ twin.clickTime = clickTime
          /\ twin.materials[0].uniforms = wave)
    /\ [][(PairTick \/ PairClickHit \/ PairClickMiss) =>
             /\ activeMaterialIndex' = activeMaterialIndex
             /\ meshMaterial' = meshMaterial
             /\ twin'.activeMaterialIndex = twin.activeMaterialIndex
             /\ twin'.meshMaterial = twin.meshMaterial]_vars
    /\ [][\A t \in Times, p \in Points :
             (activeMaterialIndex = 1 /\ onDocumentClickHit(t, p)) =>
                elasticity' = ElasticityScale]_vars
    /\ [][\A t \in Times :
             (activeMaterialIndex = 1 /\ elasticity > 0 /\ animate(t)) =>
                elasticity' < elasticity]_vars

\* one run displays the creative material, the other the wave material, and
\* the ripple of a hit on (1,2,3) is in flight, the same in both
C15_Witness ==
    /\ activeMaterialIndex = 1
    /\ twin.activeMaterialIndex = 0
    /\ ticksSinceHit > 1
    /\ elasticity > 0
    /\ twin.elasticity = elasticity
    /\ wave.u_clickPosition = <<1, 2, 3>>
    /\ twin.materials[0].uniforms.u_elasticity = wave.u_elasticity

====
